---- MODULE Spec2Model ----
(***************************************************************************)
(* Model of src/src/slider/slider.js (MaterialSlider).                     *)
(*                                                                         *)
(* The range control (value, min, max, disabled, focus), the document      *)
(* tree around it, the widget's fields and the registered listeners are    *)
(* the state.  The constructor, the four statement groups of init, the     *)
(* public methods and the three event handlers are the actions.            *)
(*                                                                         *)
(* Numbers: the control's value, min and max are integers (step 1); the    *)
(* fraction (value - min) / (max - min) is kept as an exact rational       *)
(* <<numerator, denominator>> in lowest terms, so IEEE rounding of the     *)
(* quotient is not represented.  The control is a well-formed range        *)
(* control: min < max and min <= value <= max (the browser clamps every    *)
(* assignment to value into the range).                                    *)
(***************************************************************************)
EXTENDS Integers, Sequences, FiniteSets, TLC

\* ---------------------------------------------------------------- bounds
Below == 1
Hi == 2
NumSiblings == 1
MaxInits == 2

Lo == 0 - Below

\* ------------------------------------------------------------- constants
Null == 0
HostParent == 1
El == 2
FirstNew == 3 + NumSiblings

IE_CONTAINER == "mdl-slider__ie-container"
SLIDER_CONTAINER == "mdl-slider__container"
BACKGROUND_FLEX == "mdl-slider__background-flex"
BACKGROUND_LOWER == "mdl-slider__background-lower"
BACKGROUND_UPPER == "mdl-slider__background-upper"
IS_LOWEST_VALUE == "is-lowest-value"
IS_UPGRADED == "is-upgraded"

EventTypes == {"input", "change", "mouseup"}

VARIABLES
  element_, isIE_, backgroundLower_, backgroundUpper_,
  value, min, max, disabled, focused,
  classList, children, flex, nextId,
  listeners, inits,
  pc, thrown, last, arg, prev

vars == <<element_, isIE_, backgroundLower_, backgroundUpper_,
          value, min, max, disabled, focused,
          classList, children, flex, nextId,
          listeners, inits, pc, thrown, last, arg, prev>>

widget == <<element_, isIE_, backgroundLower_, backgroundUpper_>>
control == <<value, min, max, disabled, focused>>
dom == <<classList, children, flex, nextId>>

\* --------------------------------------------------------------- numbers
RECURSIVE GCD(_, _)
GCD(a, b) == IF b = 0 THEN a ELSE GCD(b, a % b)

Unset == <<>>

\* n / d in lowest terms, d > 0, n >= 0
Frac(n, d) == LET g == GCD(n, d) IN <<n \div g, d \div g>>

OneMinus(f) == Frac(f[2] - f[1], f[2])

IsZero(f) == f[1] = 0

\* a slip that measures the value from the wrong end of the range
fraction_reversed(v, mn, mx) == Frac(mx - v, mx - mn)

\* lines 101-102
fraction(v, mn, mx) == Frac(v - mn, mx - mn)

\* the range control's own clamping of an assigned value
Sanitize(v, mn, mx) == IF v < mn THEN mn ELSE IF v > mx THEN mx ELSE v

\* JavaScript truthiness of change's argument: <<>> is "no argument"
Truthy(a) == a # <<>> /\ a[1] # 0

Args == {<<>>} \cup {<<v>> : v \in (Lo - 1)..(Hi + 1)}

\* ------------------------------------------------------------------- DOM
Range(s) == {s[i] : i \in 1..Len(s)}

IndexOf(s, x) == CHOOSE i \in 1..Len(s) : s[i] = x

ParentOf(ch, n) == CHOOSE p \in DOMAIN ch : n \in Range(ch[p])

CreateElement(ch, n) == ch @@ (n :> <<>>)

InsertBefore(ch, p, new, ref) ==
  LET s == ch[p]
      i == IndexOf(s, ref)
  IN [ch EXCEPT ![p] = SubSeq(s, 1, i - 1) \o <<new>> \o SubSeq(s, i, Len(s))]

RemoveChild(ch, p, c) ==
  LET s == ch[p]
      i == IndexOf(s, c)
  IN [ch EXCEPT ![p] = SubSeq(s, 1, i - 1) \o SubSeq(s, i + 1, Len(s))]

AppendChild(ch, p, c) == [ch EXCEPT ![p] = Append(@, c)]

HostTree(k) ==
  [n \in 1..(FirstNew - 1) |->
     IF n = HostParent
       THEN [i \in 1..(NumSiblings + 1) |->
               IF i < k THEN 2 + i ELSE IF i = k THEN El ELSE 1 + i]
       ELSE <<>>]

Snapshot ==
  [value |-> value, min |-> min, max |-> max,
   disabled |-> disabled, focused |-> focused,
   classList |-> classList, children |-> children, flex |-> flex,
   nextId |-> nextId, listeners |-> listeners, isIE_ |-> isIE_,
   lower |-> backgroundLower_, upper |-> backgroundUpper_]

\* ------------------------------------------------------------------ Init
Init ==
  /\ element_ = Null /\ isIE_ = FALSE
  /\ backgroundLower_ = Null /\ backgroundUpper_ = Null
  /\ min \in Lo..(Hi - 1)
  /\ max \in (min + 1)..Hi
  /\ value \in min..max
  /\ disabled \in BOOLEAN
  /\ focused = FALSE
  /\ \E k \in 1..(NumSiblings + 1) : children = HostTree(k)
  /\ classList = [n \in 1..(FirstNew - 1) |->
                    IF n = El THEN {"mdl-slider", "mdl-js-slider"} ELSE {}]
  /\ flex = [n \in 1..(FirstNew - 1) |-> Unset]
  /\ nextId = FirstNew
  /\ listeners = [t \in EventTypes |-> 0]
  /\ inits = 0
  /\ pc = "new"
  /\ thrown = FALSE
  /\ last = "none"
  /\ arg = <<>>
  /\ prev = Snapshot

\* ------------------------------------------------------ updateValueStyles_
\* a slip that tests the raw value instead of the fraction
updateValueStyles_rawZero(v) ==
  LET f == fraction(v, min, max) IN
  /\ classList' = [classList EXCEPT ![element_] =
                     IF v = 0 THEN @ \cup {IS_LOWEST_VALUE}
                              ELSE @ \ {IS_LOWEST_VALUE}]
  /\ flex' = IF ~isIE_
               THEN [flex EXCEPT ![backgroundLower_] = f,
                                 ![backgroundUpper_] = OneMinus(f)]
               ELSE flex

\* lines 97-116; v is this.element_.value as the routine reads it
updateValueStyles_(v) ==
  LET f == fraction(v, min, max) IN
  /\ classList' = [classList EXCEPT ![element_] =
                     IF IsZero(f) THEN @ \cup {IS_LOWEST_VALUE}
                                  ELSE @ \ {IS_LOWEST_VALUE}]
  /\ flex' = IF ~isIE_
               THEN [flex EXCEPT ![backgroundLower_] = f,
                                 ![backgroundUpper_] = OneMinus(f)]
               ELSE flex

\* -------------------------------------------------------------------- init
\* a slip that leaves the guard of line 160 out
InitEntry_unguarded(e) == "wrap"

\* line 160: init does nothing when the control is absent
InitEntry(e) == IF e = Null THEN "idle" ELSE "wrap"

\* lines 23-31
Construct(element, msPointerEnabled) ==
  /\ pc = "new"
  /\ element_' = element
  /\ isIE_' = msPointerEnabled
  /\ pc' = InitEntry(element)
  /\ inits' = inits + 1
  /\ last' = "init" /\ arg' = <<>> /\ prev' = Snapshot /\ thrown' = FALSE
  /\ UNCHANGED <<backgroundLower_, backgroundUpper_, control, dom, listeners>>

\* a slip that appends the container to the parent instead of inserting it
\* before the control
Wrap_appended(ch, c, e) ==
  LET p == ParentOf(ch, e)
      ch1 == AppendChild(CreateElement(ch, c), p, c)
      ch2 == RemoveChild(ch1, ParentOf(ch1, e), e)
  IN AppendChild(ch2, c, e)

\* lines 165-169 and 174-178: createElement, insertBefore, removeChild,
\* appendChild
Wrap(ch, c, e) ==
  LET ch1 == InsertBefore(CreateElement(ch, c), ParentOf(ch, e), c, e)
      ch2 == RemoveChild(ch1, ParentOf(ch1, e), e)
  IN AppendChild(ch2, c, e)

\* lines 161-169
wrapIE ==
  LET c == nextId IN
  /\ children' = Wrap(children, c, element_)
  /\ classList' = classList @@ (c :> {IE_CONTAINER})
  /\ flex' = flex @@ (c :> Unset)
  /\ nextId' = c + 1
  /\ UNCHANGED <<backgroundLower_, backgroundUpper_>>

\* lines 170-187
wrapFlex ==
  LET c == nextId
      bf == c + 1
      lo == c + 2
      up == c + 3
      ch1 == Wrap(children, c, element_)
      ch2 == AppendChild(CreateElement(ch1, bf), c, bf)
      ch3 == AppendChild(CreateElement(ch2, lo), bf, lo)
      ch4 == AppendChild(CreateElement(ch3, up), bf, up)
  IN
  /\ children' = ch4
  /\ classList' = classList @@ (c :> {SLIDER_CONTAINER})
                            @@ (bf :> {BACKGROUND_FLEX})
                            @@ (lo :> {BACKGROUND_LOWER})
                            @@ (up :> {BACKGROUND_UPPER})
  /\ flex' = flex @@ (c :> Unset) @@ (bf :> Unset)
                  @@ (lo :> Unset) @@ (up :> Unset)
  /\ nextId' = c + 4
  /\ backgroundLower_' = lo
  /\ backgroundUpper_' = up

\* a slip that builds the split background whatever the mode
init_wrap_anyMode ==
  /\ pc = "wrap"
  /\ wrapFlex
  /\ pc' = "listen"
  /\ UNCHANGED <<element_, isIE_, control, listeners, inits,
                 thrown, last, arg, prev>>

\* lines 161-188
init_wrap ==
  /\ pc = "wrap"
  /\ IF isIE_ THEN wrapIE ELSE wrapFlex
  /\ pc' = "listen"
  /\ UNCHANGED <<element_, isIE_, control, listeners, inits,
                 thrown, last, arg, prev>>

\* a slip that keeps one listener per event type however often init runs
init_listen_once ==
  /\ pc = "listen"
  /\ listeners' = [t \in EventTypes |-> 1]
  /\ pc' = "update"
  /\ UNCHANGED <<widget, control, dom, inits, thrown, last, arg, prev>>

\* lines 190-192: every call binds and adds three new listeners
init_listen ==
  /\ pc = "listen"
  /\ listeners' = [t \in EventTypes |-> listeners[t] + 1]
  /\ pc' = "update"
  /\ UNCHANGED <<widget, control, dom, inits, thrown, last, arg, prev>>

\* line 194
init_update ==
  /\ pc = "update"
  /\ updateValueStyles_(value)
  /\ pc' = "mark"
  /\ UNCHANGED <<widget, control, children, nextId, listeners, inits,
                 thrown, last, arg, prev>>

\* line 195
init_mark ==
  /\ pc = "mark"
  /\ classList' = [classList EXCEPT ![element_] = @ \cup {IS_UPGRADED}]
  /\ pc' = "idle"
  /\ UNCHANGED <<widget, control, children, flex, nextId, listeners, inits,
                 thrown, last, arg, prev>>

\* lines 157-160: init called again on a constructed widget
init ==
  /\ pc = "idle"
  /\ inits < MaxInits
  /\ pc' = InitEntry(element_)
  /\ inits' = inits + 1
  /\ last' = "init" /\ arg' = <<>> /\ prev' = Snapshot /\ thrown' = FALSE
  /\ UNCHANGED <<widget, control, dom, listeners>>

\* ---------------------------------------------------------- public methods
\* a slip that recomputes only when a value was assigned
change_updateOnlyOnAssign(a) ==
  /\ pc = "idle"
  /\ last' = "change" /\ arg' = a /\ prev' = Snapshot
  /\ IF element_ = Null
       THEN /\ thrown' = TRUE
            /\ UNCHANGED <<value, classList, flex>>
       ELSE /\ thrown' = FALSE
            /\ value' = IF Truthy(a) THEN Sanitize(a[1], min, max) ELSE value
            /\ IF Truthy(a) THEN updateValueStyles_(value')
                            ELSE UNCHANGED <<classList, flex>>
  /\ UNCHANGED <<widget, min, max, disabled, focused, children, nextId,
                 listeners, inits, pc>>

\* lines 145-152; a is <<>> for change() and <<v>> for change(v).  With no
\* control every statement dereferences null and the call throws.
change(a) ==
  /\ pc = "idle"
  /\ last' = "change" /\ arg' = a /\ prev' = Snapshot
  /\ IF element_ = Null
       THEN /\ thrown' = TRUE
            /\ UNCHANGED <<value, classList, flex>>
       ELSE /\ thrown' = FALSE
            /\ value' = IF Truthy(a) THEN Sanitize(a[1], min, max) ELSE value
            /\ updateValueStyles_(value')
  /\ UNCHANGED <<widget, min, max, disabled, focused, children, nextId,
                 listeners, inits, pc>>

\* a slip that flips the state instead of setting it
disable_toggle ==
  /\ pc = "idle"
  /\ last' = "disable" /\ arg' = <<>> /\ prev' = Snapshot
  /\ IF element_ = Null
       THEN thrown' = TRUE /\ UNCHANGED disabled
       ELSE thrown' = FALSE /\ disabled' = ~disabled
  /\ UNCHANGED <<widget, value, min, max, focused, dom, listeners, inits, pc>>

\* lines 124-128
disable ==
  /\ pc = "idle"
  /\ last' = "disable" /\ arg' = <<>> /\ prev' = Snapshot
  /\ IF element_ = Null
       THEN thrown' = TRUE /\ UNCHANGED disabled
       ELSE thrown' = FALSE /\ disabled' = TRUE
  /\ UNCHANGED <<widget, value, min, max, focused, dom, listeners, inits, pc>>

\* lines 134-138
enable ==
  /\ pc = "idle"
  /\ last' = "enable" /\ arg' = <<>> /\ prev' = Snapshot
  /\ IF element_ = Null
       THEN thrown' = TRUE /\ UNCHANGED disabled
       ELSE thrown' = FALSE /\ disabled' = FALSE
  /\ UNCHANGED <<widget, value, min, max, focused, dom, listeners, inits, pc>>

\* ----------------------------------------------------------- event handlers
\* lines 64-68 with the listener of line 190: the user moves the thumb of an
\* enabled control to v and the browser dispatches 'input'
onInput_(v) ==
  /\ pc = "idle" /\ element_ # Null /\ ~disabled
  /\ last' = "input" /\ arg' = <<>> /\ prev' = Snapshot /\ thrown' = FALSE
  /\ value' = v
  /\ focused' = TRUE
  /\ IF listeners["input"] > 0 THEN updateValueStyles_(v)
                               ELSE UNCHANGED <<classList, flex>>
  /\ UNCHANGED <<widget, min, max, disabled, children, nextId,
                 listeners, inits, pc>>

\* lines 75-79 with the listener of line 191: the user commits v and the
\* browser dispatches 'change'
onChange_(v) ==
  /\ pc = "idle" /\ element_ # Null /\ ~disabled
  /\ last' = "changeEvent" /\ arg' = <<>> /\ prev' = Snapshot
  /\ thrown' = FALSE
  /\ value' = v
  /\ IF listeners["change"] > 0 THEN updateValueStyles_(v)
                                ELSE UNCHANGED <<classList, flex>>
  /\ UNCHANGED <<widget, min, max, disabled, focused, children, nextId,
                 listeners, inits, pc>>

\* a slip that leaves the focus where it is
onMouseUp_noBlur ==
  /\ pc = "idle" /\ element_ # Null
  /\ last' = "mouseup" /\ arg' = <<>> /\ prev' = Snapshot /\ thrown' = FALSE
  /\ UNCHANGED focused
  /\ UNCHANGED <<widget, value, min, max, disabled, dom, listeners, inits, pc>>

\* lines 86-90 with the listener of line 192; event.target is the control
onMouseUp_ ==
  /\ pc = "idle" /\ element_ # Null
  /\ last' = "mouseup" /\ arg' = <<>> /\ prev' = Snapshot /\ thrown' = FALSE
  /\ focused' = IF listeners["mouseup"] > 0 THEN FALSE ELSE focused
  /\ UNCHANGED <<widget, value, min, max, disabled, dom, listeners, inits, pc>>

\* the host page assigns the control's value itself: no event is dispatched
\* and no handler runs (the control belongs to the page, lines 101-102 only
\* read it)
hostSetsValue(v) ==
  /\ pc = "idle" /\ element_ # Null
  /\ last' = "host" /\ arg' = <<>> /\ prev' = Snapshot /\ thrown' = FALSE
  /\ value' = Sanitize(v, min, max)
  /\ UNCHANGED <<widget, min, max, disabled, focused, dom, listeners,
                 inits, pc>>

\* ------------------------------------------------------------ specifications
Next ==
  \/ \E e \in {Null, El}, ie \in BOOLEAN : Construct(e, ie)
  \/ init_wrap
  \/ init_listen
  \/ init_update
  \/ init_mark
  \/ \E a \in Args : change(a)
  \/ disable
  \/ enable
  \/ \E v \in min..max : onInput_(v)
  \/ \E v \in min..max : onChange_(v)
  \/ onMouseUp_

Spec == Init /\ [][Next]_vars

NextHost == Next \/ \E v \in (Lo - 1)..(Hi + 1) : hostSetsValue(v)

SpecHost == Init /\ [][NextHost]_vars

NextReinit == Next \/ init

SpecReinit == Init /\ [][NextReinit]_vars

\* ------------------------------------------------------------------ claims
Returned == pc = "idle" /\ element_ = El

Marker == IS_LOWEST_VALUE \in classList[El]

Upgraded == IS_UPGRADED \in classList[El]

\* s and u are shares p/q of the value v in the range mn..mx
IsShareOf(s, v, mn, mx) ==
  /\ Len(s) = 2 /\ s[2] > 0 /\ 0 <= s[1] /\ s[1] <= s[2]
  /\ s[1] * (mx - mn) = (v - mn) * s[2]

IsComplement(u, s) ==
  /\ Len(u) = 2 /\ u[2] > 0 /\ 0 <= u[1] /\ u[1] <= u[2]
  /\ u[1] * s[2] + s[1] * u[2] = s[2] * u[2]

SharesAgree ==
  /\ IsShareOf(flex[backgroundLower_], value, min, max)
  /\ IsComplement(flex[backgroundUpper_], flex[backgroundLower_])

StylesAgree ==
  /\ Marker <=> (value = min)
  /\ ~isIE_ => SharesAgree

Containers ==
  {n \in DOMAIN classList :
     SLIDER_CONTAINER \in classList[n] \/ IE_CONTAINER \in classList[n]}

WithClass(c) == {n \in DOMAIN classList : c \in classList[n]}

FrameOfControl ==
  /\ value = prev.value /\ min = prev.min /\ max = prev.max
  /\ classList = prev.classList
  /\ flex = prev.flex
  /\ children = prev.children
  /\ nextId = prev.nextId
  /\ listeners = prev.listeners

\* C1 (as claimed): after change(v) with v in min..max, 0 included, the
\* control's value is v and the lower share is (v - min) / (max - min).
C1_ChangeAssignsEveryValue ==
  (Returned /\ last = "change" /\ arg # <<>> /\ arg[1] \in min..max) =>
     /\ value = arg[1]
     /\ ~isIE_ => IsShareOf(flex[backgroundLower_], arg[1], min, max)

C3_FillShares ==
  (Returned /\ ~isIE_ /\ last \in {"init", "change", "input", "changeEvent"})
     => SharesAgree

C3_Witness ==
  /\ Returned /\ ~isIE_ /\ last = "change"
  /\ min = 0 - 1 /\ max = 2 /\ value = 0
  /\ flex[backgroundLower_] = <<1, 3>>
  /\ flex[backgroundUpper_] = <<2, 3>>

\* C4: change() with no argument leaves value, min, max and disabled as they
\* were and recomputes marker and shares from the current value.
C4_ChangeWithoutArgument ==
  (Returned /\ last = "change" /\ arg = <<>>) =>
     /\ value = prev.value /\ min = prev.min /\ max = prev.max
     /\ disabled = prev.disabled
     /\ StylesAgree

C4_Witness ==
  /\ Returned /\ last = "change" /\ arg = <<>> /\ ~isIE_
  /\ (IS_LOWEST_VALUE \in prev.classList[El]) # (prev.value = prev.min)
  /\ ~IsShareOf(prev.flex[prev.lower], prev.value, prev.min, prev.max)
  /\ StylesAgree

\* C5: construction on a present control puts the control into a new
\* container at the control's former place, registers one listener per event
\* type, computes marker and shares, and only then adds is-upgraded; later
\* operations keep the marker and leave the control where it is.
C5_Construction ==
  /\ (element_ = El /\ Upgraded) =>
        /\ pc = "idle"
        /\ listeners = [t \in EventTypes |-> 1]
        /\ StylesAgree
        /\ ParentOf(children, El) \notin 1..(FirstNew - 1)
  /\ (Returned /\ last = "init") =>
        /\ Upgraded
        /\ LET c == ParentOf(children, El)
               was == prev.children[HostParent]
           IN /\ c \notin DOMAIN prev.children
              /\ children[HostParent] =
                   [i \in 1..Len(was) |-> IF was[i] = El THEN c ELSE was[i]]
  /\ (Returned /\ last # "init") =>
        /\ Upgraded
        /\ children = prev.children

C5_Witness ==
  /\ Returned /\ last = "init" /\ Upgraded
  /\ prev.children[HostParent][1] = El
  /\ Len(children[HostParent]) > 1
  /\ children[HostParent][1] = ParentOf(children, El)
  /\ El \notin Range(children[HostParent])

\* C6: construction with an absent control does nothing and raises nothing.
C6_AbsentControl ==
  (pc # "new" /\ element_ = Null) =>
     /\ pc = "idle"
     /\ last = "init" => ~thrown
     /\ nextId = FirstNew
     /\ DOMAIN children = 1..(FirstNew - 1)
     /\ \E k \in 1..(NumSiblings + 1) : children = HostTree(k)
     /\ listeners = [t \in EventTypes |-> 0]
     /\ \A n \in DOMAIN classList :
          classList[n] \cap {IS_UPGRADED, IS_LOWEST_VALUE, IE_CONTAINER,
                             SLIDER_CONTAINER} = {}
     /\ \A n \in DOMAIN flex : flex[n] = Unset

C6_Witness ==
  /\ pc = "idle" /\ element_ = Null /\ last = "init" /\ inits = 1
  /\ ~thrown

\* C7: disable() leaves disabled true and enable() leaves it false, whatever
\* it was; neither changes value, marker, shares or tree.
C7_EnableDisable ==
  /\ (Returned /\ last = "disable") => (disabled /\ FrameOfControl)
  /\ (Returned /\ last = "enable") => (~disabled /\ FrameOfControl)

C7_Witness ==
  /\ Returned /\ last = "disable" /\ prev.disabled /\ disabled
  /\ value > min

\* C8: mouseup removes the focus from the control and changes nothing else.
C8_MouseUp ==
  (Returned /\ last = "mouseup") =>
     /\ ~focused
     /\ disabled = prev.disabled
     /\ FrameOfControl

C8_Witness ==
  /\ Returned /\ last = "mouseup" /\ prev.focused /\ ~focused
  /\ value > min /\ isIE_

\* C9: every init call on a present control adds a container around the
\* control (and, in non-alternate mode, a flex background with two regions)
\* and one listener per event type.
C9_InitDuplicates ==
  Returned =>
     /\ listeners = [t \in EventTypes |-> inits]
     /\ Cardinality(Containers) = inits
     /\ ParentOf(children, El) \in Containers
     /\ \A c \in Containers : \E p \in DOMAIN children : c \in Range(children[p])
     /\ ~isIE_ => /\ Cardinality(WithClass(BACKGROUND_FLEX)) = inits
                  /\ Cardinality(WithClass(BACKGROUND_LOWER)) = inits
                  /\ Cardinality(WithClass(BACKGROUND_UPPER)) = inits

C9_Witness ==
  /\ Returned /\ inits = 2 /\ ~isIE_
  /\ listeners["mouseup"] = 2
  /\ Cardinality(Containers) = 2
  /\ Cardinality(WithClass(BACKGROUND_LOWER)) = 2

DecorationMatchesMode ==
  LET c == ParentOf(children, El) IN
  IF isIE_
    THEN /\ DOMAIN children = 1..FirstNew
         /\ c = FirstNew
         /\ classList[c] = {IE_CONTAINER}
         /\ children[c] = <<El>>
         /\ \A n \in DOMAIN flex : flex[n] = Unset
         /\ backgroundLower_ = Null /\ backgroundUpper_ = Null
         /\ Marker <=> (value = min)
    ELSE /\ DOMAIN children = 1..(FirstNew + 3)
         /\ classList[c] = {SLIDER_CONTAINER}
         /\ Len(children[c]) = 2
         /\ children[c][1] = El
         /\ classList[children[c][2]] = {BACKGROUND_FLEX}
         /\ children[children[c][2]] = <<backgroundLower_, backgroundUpper_>>
         /\ WithClass(BACKGROUND_LOWER) = {backgroundLower_}
         /\ WithClass(BACKGROUND_UPPER) = {backgroundUpper_}
         /\ WithClass(BACKGROUND_FLEX) = {children[c][2]}
         /\ WithClass(IE_CONTAINER) = {}

\* C10: the mode is fixed at construction, and the decoration matches it:
\* one ie-container and no sized regions in alternate mode, control, flex
\* background, lower region, upper region otherwise.
C10_ModeFixed ==
  /\ [][pc # "new" => isIE_' = isIE_]_vars
  /\ [](Returned => DecorationMatchesMode)

C10_Witness ==
  /\ Returned /\ isIE_ /\ last = "change" /\ arg # <<>>
  /\ value # prev.value /\ Marker
  /\ Cardinality(Containers) = 1

====
